---- MODULE Spec2Model ----
(***************************************************************************)
(* Transcript-acquisition pipeline of youtube-crawler-web: the POST        *)
(* handlers of src/app/api/youtube/route.ts (the cobalt resolver variant,  *)
(* lines 1-217, and the RapidAPI resolver variant, lines 219-490) and of   *)
(* src/unnamed/part_000 (captions only, with the history sink).            *)
(*                                                                         *)
(* One request is followed from the request body to the response.  Every   *)
(* await of the handler is one action; the outcome of the awaited call     *)
(* (a throw, a non-ok response, a payload) is chosen by the environment.   *)
(* Texts and identifiers are sequences of one-character strings.           *)
(***************************************************************************)
EXTENDS Integers, Sequences, FiniteSets, TLC

VARIABLES
    variant,        \* which handler serves the request: "cobalt", "rapid", "captions"
    openai,         \* route.ts:224  the engine client exists (OPENAI_API_KEY set)
    RAPIDAPI_KEY,   \* route.ts:229  the resolver key is set
    supabase,       \* part_000:6    the history sink client exists
    body,           \* what request.json() yields for this request
    pc,             \* position of the handler
    videoId,        \* the destructured videoId value
    videoInfo,      \* result of getVideoInfo
    subtitles,      \* result of tryGetSubtitles / the raw cue list of part_000
    metaLog,        \* what the metadata source answered (Null: not asked)
    captionLog,     \* what the caption source answered, one entry per call
    resolverStatus, \* status the audio resolver reported on its last call
    audioOffered,   \* urls of the audio-only items the resolver offered
    audioUrl,       \* url chosen by the resolver step
    audioSize,      \* byteLength of the downloaded payload (-1: nothing downloaded)
    downloadLog,    \* how the audio download answered ("none": not asked)
    engineLog,      \* how the speech engine answered ("none": not asked)
    historyLog,     \* how the history insert answered ("none": not asked)
    transcription,  \* what the speech engine returned
    transcript,     \* the TranscriptSegment[] of the handler
    usedWhisper,    \* route.ts:443
    response,       \* the response returned by POST
    calls,          \* the external calls made so far, in order
    locatorData,    \* getAudioUrl alone: the resolver's JSON answer
    locatorUrl,     \* getAudioUrl alone: what it returned or threw (Null: not called)
    loading,        \* page.tsx:28  the page's loading flag
    result,         \* page.tsx:29  the result the page shows (Null: none)
    error,          \* page.tsx:30  the error the page shows ("": none)
    mode,           \* page.tsx:32  the tab shown: "url" or "upload"
    pending,        \* the page's requests in flight, by request number
    started,        \* how many requests the page has started
    NEXT_PUBLIC_SUPABASE_URL, \* history/route.ts:6  the variable is set
    SUPABASE_SERVICE_KEY,     \* history/route.ts:6  the variable is set
    crawl_history,  \* the rows of the history table, in stored order
    historyPc,      \* position of the history GET handler
    queryLog,       \* how the history query answered ("none": not asked)
    historyResponse \* the response returned by GET

\* the state of one POST request
postVars == <<variant, openai, RAPIDAPI_KEY, supabase, body, metaLog, pc, videoId, videoInfo,
              subtitles, captionLog, resolverStatus, audioOffered, audioUrl, audioSize,
              downloadLog, engineLog, historyLog, transcription, transcript, usedWhisper,
              response, calls>>

\* the state of one call of getAudioUrl taken alone
locatorVars == <<locatorData, locatorUrl>>

\* the state of the page component
pageVars == <<loading, result, error, mode, pending, started>>

\* the state of one GET request for the history
historyVars == <<NEXT_PUBLIC_SUPABASE_URL, SUPABASE_SERVICE_KEY, crawl_history, historyPc,
                 queryLog, historyResponse>>

\* what the steps of POST leave alone
auxVars == <<locatorVars, pageVars, historyVars>>

vars == <<postVars, auxVars>>

-----------------------------------------------------------------------------
(* Bounds of the model *)

\* longest identifier string tried by a request
MaxIdLen == 12
\* most cues a caption track returns
MaxCues == 2
\* most segments the speech engine returns
MaxSegs == 2
\* most audio items / video items in a resolver response
MaxAudioItems == 2
MaxVideoItems == 1

-----------------------------------------------------------------------------
(* Characters and texts *)

Lower == {"a","b","c","d","e","f","g","h","i","j","k","l","m",
          "n","o","p","q","r","s","t","u","v","w","x","y","z"}
Upper == {"A","B","C","D","E","F","G","H","I","J","K","L","M",
          "N","O","P","Q","R","S","T","U","V","W","X","Y","Z"}
Digit == {"0","1","2","3","4","5","6","7","8","9"}

\* the character class [a-zA-Z0-9_-] of the identifier pattern
IdChar == Lower \cup Upper \cup Digit \cup {"_", "-"}

\* characters String.prototype.trim removes
WhiteSpace == {" ", "\t", "\n"}

Rep(c, n) == [i \in 1..n |-> c]

\* seq with position i replaced by c
Subst(seq, i, c) == [seq EXCEPT ![i] = c]

RickRoll == <<"d","Q","w","4","w","9","W","g","X","c","Q">>

\* texts a caption cue or an engine segment may carry
Texts == { <<>>, <<"a">>, <<" ", "b", " ">> }

RECURSIVE TrimStart(_)
TrimStart(s) ==
    IF s = <<>> THEN <<>>
    ELSE IF Head(s) \in WhiteSpace THEN TrimStart(Tail(s)) ELSE s

RECURSIVE TrimEnd(_)
TrimEnd(s) ==
    IF s = <<>> THEN <<>>
    ELSE IF s[Len(s)] \in WhiteSpace THEN TrimEnd(SubSeq(s, 1, Len(s) - 1)) ELSE s

\* String.prototype.trim
Trim(s) == TrimEnd(TrimStart(s))

\* Array.prototype.join over texts
RECURSIVE Join(_, _)
Join(texts, sep) ==
    IF texts = <<>> THEN <<>>
    ELSE IF Len(texts) = 1 THEN texts[1]
    ELSE texts[1] \o sep \o Join(Tail(texts), sep)

\* all sequences over S of length at most n
SeqUpTo(S, n) == UNION { [1..k -> S] : k \in 0..n }

\* number of occurrences of call c in the log
Count(log, c) == Cardinality({ i \in 1..Len(log) : log[i] = c })

-----------------------------------------------------------------------------
(* User-facing messages of the handlers, rendered in ASCII *)

MsgIdRequired      == "a valid video ID is required"                    \* route.ts:419
MsgIdFormat        == "not a well-formed YouTube video ID"              \* route.ts:426
MsgVideoNotFound   == "video not found, check the URL"                  \* route.ts:437
MsgNoCaptionsUseUpload == "no captions, use the file upload tab"        \* route.ts:454
MsgNoCaptionsNeedKey   == "no captions, an OpenAI API key is needed"    \* route.ts:182
MsgNoCaptions      == "no captions or captions cannot be fetched"       \* part_000:82
MsgServerError     == "a server error occurred"                         \* route.ts:484
MsgWhisperDefault  == "speech recognition failed"                       \* route.ts:464
MsgNoOpenAIKey     == "OpenAI API key is not set"                       \* route.ts:349
MsgNoRapidKey      == "RapidAPI key is not set"                         \* route.ts:290
MsgResolverNotOk   == "cannot fetch the video information"              \* route.ts:306
MsgAudioNotFound   == "audio not found"                                 \* route.ts:340
MsgCobaltNotOk     == "audio extraction failed, try again later"        \* route.ts:92
MsgCobaltNoUrl     == "cannot get the audio URL"                        \* route.ts:98
MsgDownloadFailed  == "audio download failed"                           \* route.ts:363
MsgTooLong         == "video too long, try a video of 10 minutes or less" \* route.ts:371

\* messages of errors thrown by the platform or a client library
MsgFetchFailed     == "fetch failed"
MsgEngineError     == "engine error"

-----------------------------------------------------------------------------
(* Request bodies *)

Undefined == [type |-> "undefined"]

\* identifier strings a request may carry: every length up to MaxIdLen, a
\* well-formed identifier, and well-formed identifiers spoiled in one place
IdStrings ==
    { Rep("a", n) : n \in 0..MaxIdLen }
    \cup { RickRoll, Subst(RickRoll, 3, "_"), Subst(RickRoll, 11, "-") }
    \cup { Subst(RickRoll, i, c) : i \in {1, 6, 11}, c \in {"!", " ", "."} }
    \cup { RickRoll \o <<"Q">>, <<" ">> \o RickRoll, SubSeq(RickRoll, 1, 10) }

\* JSON values of the videoId field
VideoIdValues ==
    { Undefined, [type |-> "null"] }
    \cup { [type |-> "number", num |-> n] : n \in {0, 7} }
    \cup { [type |-> "boolean", bool |-> b] : b \in BOOLEAN }
    \cup { [type |-> "object"] }
    \cup { [type |-> "string", chars |-> s] : s \in IdStrings }

\* what request.json() does: throws on a malformed body, or yields the parsed
\* JSON value: null, a primitive, or an object with or without a videoId field
Bodies ==
    { [kind |-> "malformed"], [kind |-> "null"], [kind |-> "primitive"] }
    \cup { [kind |-> "object", videoId |-> v] : v \in VideoIdValues }

\* JavaScript !v
Falsy(v) ==
    \/ v.type \in {"undefined", "null"}
    \/ v.type = "number" /\ v.num = 0
    \/ v.type = "boolean" /\ ~v.bool
    \/ v.type = "string" /\ v.chars = <<>>

\* typeof v === 'string'
IsString(v) == v.type = "string"

\* the identifier length of the pattern {11}
IdLength == 11

\* /^[a-zA-Z0-9_-]{11}$/.test(chars)
MatchesIdPatternLoose(chars) ==
    /\ Len(chars) >= IdLength
    /\ \A i \in 1..IdLength : chars[i] \in IdChar
MatchesIdPattern(chars) ==
    /\ Len(chars) = IdLength
    /\ \A i \in 1..Len(chars) : chars[i] \in IdChar

\* the two checks of POST: which message rejects v, or "" when v passes
RejectReason(v) ==
    IF Falsy(v) \/ ~IsString(v) THEN MsgIdRequired
    ELSE IF ~MatchesIdPattern(v.chars) THEN MsgIdFormat
    ELSE ""

-----------------------------------------------------------------------------
(* Responses *)

NoResponse == [kind |-> "none"]

\* NextResponse.json({ error }, { status })
ErrorResponse(msg, status) == [kind |-> "error", error |-> msg, status |-> status]

\* error instanceof Error ? error.message : the default message
ErrorMessageServerDefault(err) == IF err.isError THEN err.message ELSE MsgServerError
ErrorMessage(err) == IF err.isError THEN err.message ELSE MsgWhisperDefault

\* an Error instance with the given message
Err(msg) == [isError |-> TRUE, message |-> msg]

\* the values a rejected promise of a client library may carry
Thrown(msg) == { Err(msg), [isError |-> FALSE, message |-> msg] }

-----------------------------------------------------------------------------
(* What the external services may answer *)

\* outcomes of fetch(oembedUrl) followed by response.json()
MetadataOutcomes ==
    { [kind |-> "throw"], [kind |-> "notok"], [kind |-> "badjson"],
      [kind |-> "ok", data |-> [type |-> "null"]],
      [kind |-> "ok", data |-> [type |-> "object", title |-> "T", author_name |-> "A"]] }

\* a cue of the caption source, in the language lang
Cues(lang) ==
    [text : Texts, offset : 0..1, duration : 0..1, lang : {lang}]

\* outcomes of YoutubeTranscript.fetchTranscript
CaptionOutcomes(lang) ==
    { [kind |-> "throw"] }
    \cup { [kind |-> "ok", cues |-> c] : c \in SeqUpTo(Cues(lang), MaxCues) }

-----------------------------------------------------------------------------
(* Metadata and captions *)

\* `https://img.youtube.com/vi/${videoId}/maxresdefault.jpg`
ThumbnailUrl(id) == <<"https://img.youtube.com/vi/">> \o id \o <<"/maxresdefault.jpg">>

\* the object getVideoInfo returns
VideoInfoOf(id, data) ==
    [videoId |-> id, title |-> data.title, channelName |-> data.author_name,
     thumbnail |-> ThumbnailUrl(id)]

\* getVideoInfo throws: fetch rejects, the response is not ok, the body is no
\* JSON, or the body is null (data.title of null)
MetadataFails(o) ==
    \/ o.kind \in {"throw", "notok", "badjson"}
    \/ o.kind = "ok" /\ o.data.type = "null"

\* transcript.map(t => ({ text, offset, duration }))
MapCues(cues) ==
    [i \in 1..Len(cues) |->
        [text |-> cues[i].text, offset |-> cues[i].offset, duration |-> cues[i].duration]]

Null == [kind |-> "null"]
Segs(s) == [kind |-> "segs", segs |-> s]

\* subtitles && subtitles.length > 0
HasSubtitlesNotNull(subs) == subs.kind = "segs"
HasSubtitles(subs) == subs.kind = "segs" /\ Len(subs.segs) > 0

\* transcript.map(t => t.text).join(' ')
FullTextNoSeparator(segs) == Join([i \in 1..Len(segs) |-> segs[i].text], <<>>)
FullText(segs) == Join([i \in 1..Len(segs) |-> segs[i].text], <<" ">>)

\* NextResponse.json({ videoInfo, transcript, fullText, usedWhisper })
SuccessResponse(info, segs, whisper) ==
    [kind |-> "success", status |-> 200, videoInfo |-> info, transcript |-> segs,
     fullText |-> FullText(segs), usedWhisper |-> whisper]

-----------------------------------------------------------------------------
(* Initial state: a deployment and a request *)

Deployments ==
    { [variant |-> "cobalt", openai |-> o, key |-> FALSE, supabase |-> FALSE] : o \in BOOLEAN }
    \cup { [variant |-> "rapid", openai |-> o, key |-> k, supabase |-> FALSE] :
              o \in BOOLEAN, k \in BOOLEAN }
    \cup { [variant |-> "captions", openai |-> FALSE, key |-> FALSE, supabase |-> s] :
              s \in BOOLEAN }

\* getAudioUrl alone is not running
LocatorIdle ==
    /\ locatorData = Null
    /\ locatorUrl = Null

\* the page is not mounted
PageIdle ==
    /\ loading = FALSE
    /\ result = Null
    /\ error = ""
    /\ mode = "none"
    /\ pending = {}
    /\ started = 0

\* no history GET request is running
HistoryIdle ==
    /\ NEXT_PUBLIC_SUPABASE_URL = FALSE
    /\ SUPABASE_SERVICE_KEY = FALSE
    /\ crawl_history = <<>>
    /\ historyPc = "idle"
    /\ queryLog = "none"
    /\ historyResponse = NoResponse

Init ==
    /\ \E d \in Deployments :
          /\ variant = d.variant
          /\ openai = d.openai
          /\ RAPIDAPI_KEY = d.key
          /\ supabase = d.supabase
    /\ body \in Bodies
    /\ pc = "start"
    /\ videoId = Undefined
    /\ videoInfo = Null
    /\ subtitles = Null
    /\ metaLog = Null
    /\ captionLog = <<>>
    /\ resolverStatus = "none"
    /\ audioOffered = {}
    /\ audioUrl = ""
    /\ audioSize = -1
    /\ downloadLog = "none"
    /\ engineLog = "none"
    /\ historyLog = "none"
    /\ transcription = Null
    /\ transcript = <<>>
    /\ usedWhisper = FALSE
    /\ response = NoResponse
    /\ calls = <<>>
    /\ LocatorIdle
    /\ PageIdle
    /\ HistoryIdle

-----------------------------------------------------------------------------
(* The handler, step by step *)

\* the handler returns r
Return(r) ==
    /\ response' = r
    /\ pc' = "done"

\* the catch of POST's outer try: console.error, then status 500
OuterCatchRethrow ==
    /\ response' = NoResponse
    /\ pc' = "unhandled"
OuterCatch == Return(ErrorResponse(MsgServerError, 500))

\* the catch around transcribeWithWhisper: status 500 with the error's message
WhisperCatchSwallow(err) ==
    /\ pc' = "respond"
    /\ UNCHANGED response
WhisperCatch(err) == Return(ErrorResponse(ErrorMessage(err), 500))

\* const { videoId } = await request.json()
ReadBody ==
    /\ pc = "start"
    /\ IF body.kind \in {"malformed", "null"}
          THEN /\ OuterCatch
               /\ UNCHANGED videoId
          ELSE /\ videoId' = IF body.kind = "object" THEN body.videoId ELSE Undefined
               /\ pc' = "validate"
               /\ UNCHANGED response
    /\ UNCHANGED <<auxVars, variant, openai, RAPIDAPI_KEY, supabase, body, metaLog, videoInfo, subtitles,
                   captionLog, resolverStatus, audioOffered, audioUrl, audioSize, downloadLog, engineLog, historyLog, transcription,
                   transcript, usedWhisper, calls>>

\* the two identifier checks
ValidateId ==
    /\ pc = "validate"
    /\ IF RejectReason(videoId) # ""
          THEN Return(ErrorResponse(RejectReason(videoId), 400))
          ELSE /\ pc' = "metadata"
               /\ UNCHANGED response
    /\ UNCHANGED <<auxVars, variant, openai, RAPIDAPI_KEY, supabase, body, metaLog, videoId, videoInfo,
                   subtitles, captionLog, resolverStatus, audioOffered, audioUrl, audioSize, downloadLog, engineLog, historyLog,
                   transcription, transcript, usedWhisper, calls>>

\* try { videoInfo = await getVideoInfo(videoId) } catch { 404 }
GetVideoInfoSwallow ==
    /\ pc = "metadata"
    /\ calls' = Append(calls, "metadata")
    /\ \E o \in MetadataOutcomes :
          /\ metaLog' = o
          /\ videoInfo' = IF MetadataFails(o) THEN videoInfo
                          ELSE VideoInfoOf(videoId.chars, o.data)
          /\ pc' = "captions_ko"
          /\ UNCHANGED response
    /\ UNCHANGED <<auxVars, variant, openai, RAPIDAPI_KEY, supabase, body, videoId, subtitles,
                   captionLog, resolverStatus, audioOffered, audioUrl, audioSize, downloadLog, engineLog, historyLog, transcription,
                   transcript, usedWhisper>>
GetVideoInfo ==
    /\ pc = "metadata"
    /\ calls' = Append(calls, "metadata")
    /\ \E o \in MetadataOutcomes :
          /\ metaLog' = o
          /\ IF MetadataFails(o)
                THEN /\ Return(ErrorResponse(MsgVideoNotFound, 404))
                     /\ UNCHANGED videoInfo
                ELSE /\ videoInfo' = VideoInfoOf(videoId.chars, o.data)
                     /\ pc' = "captions_ko"
                     /\ UNCHANGED response
    /\ UNCHANGED <<auxVars, variant, openai, RAPIDAPI_KEY, supabase, body, videoId, subtitles,
                   captionLog, resolverStatus, audioOffered, audioUrl, audioSize, downloadLog, engineLog, historyLog, transcription,
                   transcript, usedWhisper>>

\* tryGetSubtitles, first attempt: fetchTranscript(videoId, { lang: 'ko' })
TryGetSubtitlesKoThenDefault ==
    /\ pc = "captions_ko"
    /\ variant \in {"cobalt", "rapid"}
    /\ calls' = Append(calls, "captions_ko")
    /\ \E o \in CaptionOutcomes("ko") :
          /\ captionLog' = Append(captionLog, o)
          /\ subtitles' = IF o.kind = "throw" THEN subtitles ELSE Segs(MapCues(o.cues))
          /\ pc' = "captions_default"
    /\ UNCHANGED <<auxVars, variant, openai, RAPIDAPI_KEY, supabase, body, metaLog, videoId, videoInfo,
                   resolverStatus, audioOffered, audioUrl, audioSize, downloadLog, engineLog, historyLog, transcription, transcript,
                   usedWhisper, response>>
TryGetSubtitlesKo ==
    /\ pc = "captions_ko"
    /\ variant \in {"cobalt", "rapid"}
    /\ calls' = Append(calls, "captions_ko")
    /\ \E o \in CaptionOutcomes("ko") :
          /\ captionLog' = Append(captionLog, o)
          /\ IF o.kind = "throw"
                THEN /\ pc' = "captions_default"
                     /\ UNCHANGED subtitles
                ELSE /\ subtitles' = Segs(MapCues(o.cues))
                     /\ pc' = "decide"
    /\ UNCHANGED <<auxVars, variant, openai, RAPIDAPI_KEY, supabase, body, metaLog, videoId, videoInfo,
                   resolverStatus, audioOffered, audioUrl, audioSize, downloadLog, engineLog, historyLog, transcription, transcript,
                   usedWhisper, response>>

\* tryGetSubtitles, second attempt: fetchTranscript(videoId); null when it throws
TryGetSubtitlesDefaultRaises ==
    /\ pc = "captions_default"
    /\ variant \in {"cobalt", "rapid"}
    /\ calls' = Append(calls, "captions_default")
    /\ \E o \in CaptionOutcomes("default") :
          /\ captionLog' = Append(captionLog, o)
          /\ IF o.kind = "throw"
                THEN /\ OuterCatch
                     /\ UNCHANGED subtitles
                ELSE /\ subtitles' = Segs(MapCues(o.cues))
                     /\ pc' = "decide"
                     /\ UNCHANGED response
    /\ UNCHANGED <<auxVars, variant, openai, RAPIDAPI_KEY, supabase, body, metaLog, videoId, videoInfo,
                   resolverStatus, audioOffered, audioUrl, audioSize, downloadLog, engineLog, historyLog, transcription,
                   transcript, usedWhisper>>
TryGetSubtitlesDefault ==
    /\ pc = "captions_default"
    /\ variant \in {"cobalt", "rapid"}
    /\ calls' = Append(calls, "captions_default")
    /\ \E o \in CaptionOutcomes("default") :
          /\ captionLog' = Append(captionLog, o)
          /\ subtitles' = IF o.kind = "throw" THEN Null ELSE Segs(MapCues(o.cues))
          /\ pc' = "decide"
    /\ UNCHANGED <<auxVars, variant, openai, RAPIDAPI_KEY, supabase, body, metaLog, videoId, videoInfo,
                   resolverStatus, audioOffered, audioUrl, audioSize, downloadLog, engineLog, historyLog, transcription,
                   transcript, usedWhisper, response>>

\* part_000: transcript = await fetchTranscript(videoId, { lang: 'ko' })
FetchTranscriptKo ==
    /\ pc = "captions_ko"
    /\ variant = "captions"
    /\ calls' = Append(calls, "captions_ko")
    /\ \E o \in CaptionOutcomes("ko") :
          /\ captionLog' = Append(captionLog, o)
          /\ IF o.kind = "throw"
                THEN /\ pc' = "captions_default"
                     /\ UNCHANGED subtitles
                ELSE /\ subtitles' = Segs(o.cues)
                     /\ pc' = "history"
    /\ UNCHANGED <<auxVars, variant, openai, RAPIDAPI_KEY, supabase, body, metaLog, videoId, videoInfo,
                   resolverStatus, audioOffered, audioUrl, audioSize, downloadLog, engineLog, historyLog, transcription, transcript,
                   usedWhisper, response>>

\* part_000: the attempt without a language; 404 when it throws too
FetchTranscriptDefault ==
    /\ pc = "captions_default"
    /\ variant = "captions"
    /\ calls' = Append(calls, "captions_default")
    /\ \E o \in CaptionOutcomes("default") :
          /\ captionLog' = Append(captionLog, o)
          /\ IF o.kind = "throw"
                THEN /\ Return(ErrorResponse(MsgNoCaptions, 404))
                     /\ UNCHANGED subtitles
                ELSE /\ subtitles' = Segs(o.cues)
                     /\ pc' = "history"
                     /\ UNCHANGED response
    /\ UNCHANGED <<auxVars, variant, openai, RAPIDAPI_KEY, supabase, body, metaLog, videoId, videoInfo,
                   resolverStatus, audioOffered, audioUrl, audioSize, downloadLog, engineLog, historyLog, transcription,
                   transcript, usedWhisper>>

\* what supabase.from('crawl_history').insert(...) may do: resolve with or
\* without an error in its result, or reject
InsertOutcomes == {"ok", "error", "throw"}

\* part_000: if (supabase) { try { await insert } catch { console.error } }
SaveHistoryFailsRequest ==
    /\ pc = "history"
    /\ IF supabase
          THEN /\ calls' = Append(calls, "history")
               /\ \E o \in InsertOutcomes :
                     /\ historyLog' = o
                     /\ IF o = "throw"
                           THEN OuterCatch
                           ELSE /\ pc' = "respond_captions"
                                /\ UNCHANGED response
          ELSE /\ pc' = "respond_captions"
               /\ UNCHANGED <<calls, historyLog, response>>
    /\ UNCHANGED <<auxVars, variant, openai, RAPIDAPI_KEY, supabase, body, metaLog, videoId, videoInfo,
                   subtitles, captionLog, resolverStatus, audioOffered, audioUrl, audioSize,
                   downloadLog, engineLog, transcription, transcript, usedWhisper>>
SaveHistory ==
    /\ pc = "history"
    /\ IF supabase
          THEN /\ calls' = Append(calls, "history")
               /\ \E o \in InsertOutcomes : historyLog' = o
          ELSE UNCHANGED <<calls, historyLog>>
    /\ pc' = "respond_captions"
    /\ UNCHANGED <<auxVars, variant, openai, RAPIDAPI_KEY, supabase, body, metaLog, videoId, videoInfo,
                   subtitles, captionLog, resolverStatus, audioOffered, audioUrl, audioSize,
                   downloadLog, engineLog, transcription, transcript, usedWhisper, response>>

\* part_000: NextResponse.json({ videoInfo, transcript: transcript.map(...), fullText })
RespondCaptions ==
    /\ pc = "respond_captions"
    /\ transcript' = MapCues(subtitles.segs)
    /\ Return([kind |-> "success", status |-> 200, videoInfo |-> videoInfo,
               transcript |-> MapCues(subtitles.segs),
               fullText |-> FullText(subtitles.segs)])
    /\ UNCHANGED <<auxVars, variant, openai, RAPIDAPI_KEY, supabase, body, metaLog, videoId, videoInfo,
                   subtitles, captionLog, resolverStatus, audioOffered, audioUrl, audioSize, downloadLog, engineLog, historyLog,
                   transcription, usedWhisper, calls>>

\* if (!openai || !RAPIDAPI_KEY) of the RapidAPI variant, if (!openai) of the cobalt one
FallbackConfiguredEngineOnly == openai
FallbackConfiguredRapid == openai /\ RAPIDAPI_KEY
FallbackConfiguredCobalt == openai

\* if (subtitles && subtitles.length > 0) transcript = subtitles; else the fallback
AlwaysFallbackRapid ==
    /\ pc = "decide"
    /\ variant = "rapid"
    /\ IF ~FallbackConfiguredRapid
          THEN Return(ErrorResponse(MsgNoCaptionsUseUpload, 400))
          ELSE /\ pc' = "resolve"
               /\ UNCHANGED response
    /\ UNCHANGED <<auxVars, variant, openai, RAPIDAPI_KEY, supabase, body, metaLog, videoId, videoInfo,
                   subtitles, captionLog, resolverStatus, audioOffered, audioUrl, audioSize, downloadLog, engineLog, historyLog,
                   transcription, transcript, usedWhisper, calls>>
DecideRapid ==
    /\ pc = "decide"
    /\ variant = "rapid"
    /\ IF HasSubtitles(subtitles)
          THEN /\ transcript' = subtitles.segs
               /\ pc' = "respond"
               /\ UNCHANGED response
          ELSE IF ~FallbackConfiguredRapid
          THEN /\ Return(ErrorResponse(MsgNoCaptionsUseUpload, 400))
               /\ UNCHANGED transcript
          ELSE /\ pc' = "resolve"
               /\ UNCHANGED <<response, transcript>>
    /\ UNCHANGED <<auxVars, variant, openai, RAPIDAPI_KEY, supabase, body, metaLog, videoId, videoInfo,
                   subtitles, captionLog, resolverStatus, audioOffered, audioUrl, audioSize, downloadLog, engineLog, historyLog,
                   transcription, usedWhisper, calls>>

DecideCobaltNotFound ==
    /\ pc = "decide"
    /\ variant = "cobalt"
    /\ IF HasSubtitles(subtitles)
          THEN /\ transcript' = subtitles.segs
               /\ pc' = "respond"
               /\ UNCHANGED response
          ELSE IF ~FallbackConfiguredCobalt
          THEN /\ Return(ErrorResponse(MsgNoCaptionsNeedKey, 404))
               /\ UNCHANGED transcript
          ELSE /\ pc' = "resolve"
               /\ UNCHANGED <<response, transcript>>
    /\ UNCHANGED <<auxVars, variant, openai, RAPIDAPI_KEY, supabase, body, metaLog, videoId, videoInfo,
                   subtitles, captionLog, resolverStatus, audioOffered, audioUrl, audioSize, downloadLog, engineLog, historyLog,
                   transcription, usedWhisper, calls>>
DecideCobalt ==
    /\ pc = "decide"
    /\ variant = "cobalt"
    /\ IF HasSubtitles(subtitles)
          THEN /\ transcript' = subtitles.segs
               /\ pc' = "respond"
               /\ UNCHANGED response
          ELSE IF ~FallbackConfiguredCobalt
          THEN /\ Return(ErrorResponse(MsgNoCaptionsNeedKey, 400))
               /\ UNCHANGED transcript
          ELSE /\ pc' = "resolve"
               /\ UNCHANGED <<response, transcript>>
    /\ UNCHANGED <<auxVars, variant, openai, RAPIDAPI_KEY, supabase, body, metaLog, videoId, videoInfo,
                   subtitles, captionLog, resolverStatus, audioOffered, audioUrl, audioSize, downloadLog, engineLog, historyLog,
                   transcription, usedWhisper, calls>>

-----------------------------------------------------------------------------
(* Audio resolution, download and transcription *)

\* an optional list of a JSON answer: absent, or present with items
Absent == [present |-> FALSE]
Present(items) == [present |-> TRUE, items |-> items]

\* x?.items || []   and   x.segments || []
ItemsOf(x) == IF x.present THEN x.items ELSE <<>>

\* let minSize = Infinity: a size above every size a sizeText parses to
Infinity == 1000

\* audio items of the resolver; url "" and sizeText "" stand for a missing field
AudioItems == [url : {"", "u1", "u2"}, sizeText : {"", "x", "0", "1", "2"}]
VideoItems == [url : {"", "v1"}, hasAudio : BOOLEAN]

\* parseFloat(sizeText) || Infinity: NaN and 0 give Infinity
SizeOf(sizeText) ==
    CASE sizeText = "1" -> 1
      [] sizeText = "2" -> 2
      [] OTHER -> Infinity

\* the loop over data.audios.items: the url of the smallest sized item
RECURSIVE SmallestAudio(_, _, _)
SmallestAudio(items, url, minSize) ==
    IF items = <<>> THEN url
    ELSE LET audio == Head(items)
             size == SizeOf(audio.sizeText)
         IN  IF audio.url # "" /\ audio.sizeText # "" /\ size < minSize
                THEN SmallestAudio(Tail(items), audio.url, size)
                ELSE SmallestAudio(Tail(items), url, minSize)

\* the loop over data.videos.items: the first item with a url and audio
RECURSIVE FirstVideoWithAudio(_)
FirstVideoWithAudio(items) ==
    IF items = <<>> THEN ""
    ELSE IF Head(items).url # "" /\ Head(items).hasAudio THEN Head(items).url
    ELSE FirstVideoWithAudio(Tail(items))

\* the urls of the items of a list that have one
OfferedUrls(items) == { items[i].url : i \in { j \in 1..Len(items) : items[j].url # "" } }

\* the url getAudioUrl settles on; "" when there is none
SelectAudioUrl(data) ==
    LET fromAudio == SmallestAudio(ItemsOf(data.audios), "", Infinity)
    IN  IF fromAudio # "" THEN fromAudio ELSE FirstVideoWithAudio(ItemsOf(data.videos))

\* JSON answers of the RapidAPI resolver; an answer that is not ready, or an
\* error, offers no formats
RapidData ==
    { [type |-> "null"] }
    \cup { [type |-> "object", status |-> st, audios |-> Absent, videos |-> Absent] :
              st \in {"processing", "error"} }
    \cup { [type |-> "object", status |-> "ok", audios |-> a, videos |-> v] :
              a \in {Absent} \cup { Present(x) : x \in SeqUpTo(AudioItems, MaxAudioItems) },
              v \in {Absent} \cup { Present(x) : x \in SeqUpTo(VideoItems, MaxVideoItems) } }

RapidOutcomes ==
    { [kind |-> "throw"], [kind |-> "notok"], [kind |-> "badjson"] }
    \cup { [kind |-> "ok", data |-> d] : d \in RapidData }

\* JSON answers of the cobalt resolver
CobaltData ==
    { [type |-> "null"] }
    \cup { [type |-> "object", status |-> st, url |-> u] :
              st \in {"stream", "redirect", "processing", "error"}, u \in {"", "c1"} }

CobaltOutcomes ==
    { [kind |-> "throw"], [kind |-> "notok"], [kind |-> "badjson"] }
    \cup { [kind |-> "ok", data |-> d] : d \in CobaltData }

\* const maxSize = 25 * 1024 * 1024
maxSize == 25 * 1024 * 1024

\* arrayBuffer.byteLength > maxSize
TooLarge(size) == size > maxSize

\* byteLength of payloads a download may deliver
Sizes == {1, maxSize, maxSize + 1}

DownloadOutcomes ==
    { [kind |-> "throw"], [kind |-> "notok"], [kind |-> "badbody"] }
    \cup { [kind |-> "ok", size |-> n] : n \in Sizes }

\* segments of the speech engine
EngineSegs == [text : Texts, start : 0..1, end : 0..1]

\* transcriptions of the speech engine (verbose_json)
Transcriptions ==
    [segments : {Absent} \cup { Present(x) : x \in SeqUpTo(EngineSegs, MaxSegs) },
     text : Texts]

\* (segments || []).map(seg => ({ text: seg.text.trim(), offset: seg.start, duration: seg.end - seg.start }))
MapSegmentsOffsetFromEnd(segs) ==
    [i \in 1..Len(segs) |->
        [text |-> Trim(segs[i].text), offset |-> segs[i].end,
         duration |-> segs[i].end - segs[i].start]]
MapSegments(segs) ==
    [i \in 1..Len(segs) |->
        [text |-> Trim(segs[i].text), offset |-> segs[i].start,
         duration |-> segs[i].end - segs[i].start]]

\* what transcribeWithWhisper returns for a transcription
WhisperResultNoSynth(t) == MapSegments(ItemsOf(t.segments))
WhisperResult(t) ==
    LET segments == MapSegments(ItemsOf(t.segments))
    IN  IF Len(segments) = 0 /\ t.text # <<>>
           THEN << [text |-> t.text, offset |-> 0, duration |-> 0] >>
           ELSE segments

\* getAudioUrl of the RapidAPI variant, entered from transcribeWithWhisper
GetAudioUrl ==
    /\ pc = "resolve"
    /\ variant = "rapid"
    /\ IF ~openai
          THEN /\ WhisperCatch(Err(MsgNoOpenAIKey))
               /\ UNCHANGED <<calls, audioUrl, resolverStatus, audioOffered>>
          ELSE IF ~RAPIDAPI_KEY
          THEN /\ WhisperCatch(Err(MsgNoRapidKey))
               /\ UNCHANGED <<calls, audioUrl, resolverStatus, audioOffered>>
          ELSE
            /\ calls' = Append(calls, "resolver")
            /\ \E o \in RapidOutcomes :
                 /\ resolverStatus' =
                       IF o.kind # "ok" THEN o.kind
                       ELSE IF o.data.type = "null" THEN "null"
                       ELSE o.data.status
                 /\ audioOffered' =
                       IF o.kind = "ok" /\ o.data.type = "object"
                          THEN OfferedUrls(ItemsOf(o.data.audios))
                          ELSE audioOffered
                 /\ IF o.kind = "notok"
                       THEN /\ WhisperCatch(Err(MsgResolverNotOk))
                            /\ UNCHANGED audioUrl
                       ELSE IF o.kind # "ok" \/ o.data.type = "null"
                       THEN /\ WhisperCatch(Err(MsgFetchFailed))
                            /\ UNCHANGED audioUrl
                       ELSE IF SelectAudioUrl(o.data) = ""
                       THEN /\ WhisperCatch(Err(MsgAudioNotFound))
                            /\ UNCHANGED audioUrl
                       ELSE /\ audioUrl' = SelectAudioUrl(o.data)
                            /\ pc' = "download"
                            /\ UNCHANGED response
    /\ UNCHANGED <<auxVars, variant, openai, RAPIDAPI_KEY, supabase, body, metaLog, videoId, videoInfo,
                   subtitles, captionLog, audioSize, downloadLog, engineLog, historyLog,
                   transcription, transcript,
                   usedWhisper>>

\* the cobalt request of transcribeWithWhisper (first variant)
CobaltResolve ==
    /\ pc = "resolve"
    /\ variant = "cobalt"
    /\ IF ~openai
          THEN /\ WhisperCatch(Err(MsgNoOpenAIKey))
               /\ UNCHANGED <<calls, audioUrl, resolverStatus>>
          ELSE
            /\ calls' = Append(calls, "resolver")
            /\ \E o \in CobaltOutcomes :
                 /\ resolverStatus' =
                       IF o.kind # "ok" THEN o.kind
                       ELSE IF o.data.type = "null" THEN "null"
                       ELSE o.data.status
                 /\ IF o.kind = "notok"
                       THEN /\ WhisperCatch(Err(MsgCobaltNotOk))
                            /\ UNCHANGED audioUrl
                       ELSE IF o.kind # "ok" \/ o.data.type = "null"
                       THEN /\ WhisperCatch(Err(MsgFetchFailed))
                            /\ UNCHANGED audioUrl
                       ELSE IF o.data.status \notin {"stream", "redirect"}
                       THEN /\ WhisperCatch(Err(MsgCobaltNoUrl))
                            /\ UNCHANGED audioUrl
                       ELSE /\ audioUrl' = o.data.url
                            /\ pc' = "download"
                            /\ UNCHANGED response
    /\ UNCHANGED <<auxVars, variant, openai, RAPIDAPI_KEY, supabase, body, metaLog, videoId, videoInfo,
                   subtitles, captionLog, audioOffered, audioSize, downloadLog, engineLog, historyLog,
                   transcription, transcript,
                   usedWhisper>>

\* RapidAPI variant: fetch(audioUrl), arrayBuffer(), the size check
DownloadAudio ==
    /\ pc = "download"
    /\ variant = "rapid"
    /\ calls' = Append(calls, "download")
    /\ \E o \in DownloadOutcomes :
          /\ downloadLog' = o.kind
          /\ IF o.kind = "notok"
                THEN /\ WhisperCatch(Err(MsgDownloadFailed))
                     /\ UNCHANGED audioSize
                ELSE IF o.kind # "ok"
                THEN /\ WhisperCatch(Err(MsgFetchFailed))
                     /\ UNCHANGED audioSize
                ELSE /\ audioSize' = o.size
                     /\ IF TooLarge(o.size)
                           THEN WhisperCatch(Err(MsgTooLong))
                           ELSE /\ pc' = "engine"
                                /\ UNCHANGED response
    /\ UNCHANGED <<auxVars, variant, openai, RAPIDAPI_KEY, supabase, body, metaLog, videoId, videoInfo,
                   subtitles, captionLog, resolverStatus, audioOffered, audioUrl, engineLog, historyLog,
                   transcription, transcript, usedWhisper>>

\* cobalt variant: fetch(finalAudioUrl), arrayBuffer(); no size check.
\* fetch of a missing url rejects before any request is sent
CobaltDownload ==
    /\ pc = "download"
    /\ variant = "cobalt"
    /\ IF audioUrl = ""
          THEN /\ WhisperCatch(Err(MsgFetchFailed))
               /\ UNCHANGED <<calls, audioSize, downloadLog, historyLog>>
          ELSE
            /\ calls' = Append(calls, "download")
            /\ \E o \in DownloadOutcomes :
                  /\ downloadLog' = o.kind
                  /\ IF o.kind = "notok"
                        THEN /\ WhisperCatch(Err(MsgDownloadFailed))
                             /\ UNCHANGED audioSize
                        ELSE IF o.kind # "ok"
                        THEN /\ WhisperCatch(Err(MsgFetchFailed))
                             /\ UNCHANGED audioSize
                        ELSE /\ audioSize' = o.size
                             /\ pc' = "engine"
                             /\ UNCHANGED response
    /\ UNCHANGED <<auxVars, variant, openai, RAPIDAPI_KEY, supabase, body, metaLog, videoId, videoInfo,
                   subtitles, captionLog, resolverStatus, audioOffered, audioUrl, engineLog, historyLog,
                   transcription, transcript, usedWhisper>>

\* openai.audio.transcriptions.create(...), the segment conversion, usedWhisper = true
TranscribeRetry ==
    /\ pc = "engine"
    /\ calls' = Append(calls, "engine")
    /\ \/ \E err \in Thrown(MsgEngineError) :
             /\ engineLog' = IF err.isError THEN "throw_error" ELSE "throw_other"
             /\ IF Count(calls, "engine") < 1
                   THEN UNCHANGED <<pc, response>>
                   ELSE WhisperCatch(err)
             /\ UNCHANGED <<transcription, transcript, usedWhisper>>
       \/ \E t \in Transcriptions :
             /\ engineLog' = "ok"
             /\ transcription' = t
             /\ transcript' = WhisperResult(t)
             /\ usedWhisper' = TRUE
             /\ pc' = "respond"
             /\ UNCHANGED response
    /\ UNCHANGED <<auxVars, variant, openai, RAPIDAPI_KEY, supabase, body, metaLog, videoId, videoInfo,
                   subtitles, captionLog, resolverStatus, audioOffered, audioUrl, audioSize, downloadLog, historyLog>>
Transcribe ==
    /\ pc = "engine"
    /\ calls' = Append(calls, "engine")
    /\ \/ \E err \in Thrown(MsgEngineError) :
             /\ engineLog' = IF err.isError THEN "throw_error" ELSE "throw_other"
             /\ WhisperCatch(err)
             /\ UNCHANGED <<transcription, transcript, usedWhisper>>
       \/ \E t \in Transcriptions :
             /\ engineLog' = "ok"
             /\ transcription' = t
             /\ transcript' = WhisperResult(t)
             /\ usedWhisper' = TRUE
             /\ pc' = "respond"
             /\ UNCHANGED response
    /\ UNCHANGED <<auxVars, variant, openai, RAPIDAPI_KEY, supabase, body, metaLog, videoId, videoInfo,
                   subtitles, captionLog, resolverStatus, audioOffered, audioUrl, audioSize, downloadLog, historyLog>>

\* const fullText = ...; return NextResponse.json({ videoInfo, transcript, fullText, usedWhisper })
Respond ==
    /\ pc = "respond"
    /\ Return(SuccessResponse(videoInfo, transcript, usedWhisper))
    /\ UNCHANGED <<auxVars, variant, openai, RAPIDAPI_KEY, supabase, body, metaLog, videoId, videoInfo,
                   subtitles, captionLog, resolverStatus, audioOffered, audioUrl, audioSize, downloadLog, engineLog, historyLog,
                   transcription, transcript, usedWhisper, calls>>

Next ==
    \/ ReadBody
    \/ ValidateId
    \/ GetVideoInfo
    \/ TryGetSubtitlesKo
    \/ TryGetSubtitlesDefault
    \/ FetchTranscriptKo
    \/ FetchTranscriptDefault
    \/ SaveHistory
    \/ RespondCaptions
    \/ DecideRapid
    \/ DecideCobalt
    \/ GetAudioUrl
    \/ CobaltResolve
    \/ DownloadAudio
    \/ CobaltDownload
    \/ Transcribe
    \/ Respond

Spec == Init /\ [][Next]_vars

\* the handler runs to its return: no await of it is left pending forever
FairSpec == Spec /\ WF_vars(Next)

-----------------------------------------------------------------------------
(* Vocabulary of the properties *)

\* the videoId the request carries (Undefined when the body holds none)
RequestedId == IF body.kind = "object" THEN body.videoId ELSE Undefined

\* the body was parsed, so that a videoId (possibly missing) was read from it
BodyParsed == body.kind \in {"object", "primitive"}

\* a string of exactly 11 characters of [A-Za-z0-9_-]
WellFormedId(v) ==
    /\ v.type = "string"
    /\ Len(v.chars) = 11
    /\ \A i \in 1..Len(v.chars) : v.chars[i] \in IdChar

Made(c) == \E i \in 1..Len(calls) : calls[i] = c

\* the handlers of route.ts, which have the speech-recognition fallback
RouteVariant == variant \in {"cobalt", "rapid"}

\* caption retrieval is over and gave a non-empty sequence
CaptionsFound == subtitles.kind = "segs" /\ subtitles.segs # <<>>

\* caption retrieval is over and gave nothing: null or an empty sequence
CaptionsMissing ==
    /\ captionLog # <<>>
    /\ captionLog[Len(captionLog)].kind = "ok" \/ Len(captionLog) = 2
    /\ ~CaptionsFound

\* the credentials the variant's fallback needs are not all configured
FallbackUnconfigured ==
    \/ variant = "rapid" /\ (~openai \/ ~RAPIDAPI_KEY)
    \/ variant = "cobalt" /\ ~openai

\* cue list and segment list agree in length, order, text, offset and duration
SameSegments(cues, segs) ==
    /\ Len(cues) = Len(segs)
    /\ \A i \in 1..Len(cues) :
          /\ segs[i].text = cues[i].text
          /\ segs[i].offset = cues[i].offset
          /\ segs[i].duration = cues[i].duration

-----------------------------------------------------------------------------
C2_NativeCaptionsDone ==
    (RouteVariant /\ CaptionsFound) =>
        /\ ~Made("resolver") /\ ~Made("download") /\ ~Made("engine")
        /\ pc \in {"decide", "respond", "done"}
        /\ pc = "done" =>
              /\ response.kind = "success"
              /\ response.transcript = subtitles.segs
              /\ response.usedWhisper = FALSE
              /\ response.videoInfo.videoId = RequestedId.chars

C2_Witness ==
    /\ pc = "done"
    /\ variant = "rapid"
    /\ openai /\ RAPIDAPI_KEY
    /\ subtitles.kind = "segs"
    /\ Len(subtitles.segs) = 2
    /\ response.kind = "success"
    /\ RequestedId.chars = RickRoll

(* C3: the caption attempts are sequential, 'ko' first: each is made at most *)
(* once, the default attempt is made only after the 'ko' attempt was made    *)
(* and failed, and when the 'ko' attempt succeeds its cues are the result    *)
(* and no default attempt is made.                                           *)
C3_CaptionAttemptsSequential ==
    /\ Count(calls, "captions_ko") <= 1
    /\ Count(calls, "captions_default") <= 1
    /\ Len(captionLog) = Count(calls, "captions_ko") + Count(calls, "captions_default")
    /\ \A j \in 1..Len(calls) :
          calls[j] = "captions_default" =>
              /\ \E i \in 1..(j - 1) : calls[i] = "captions_ko"
              /\ captionLog[1].kind = "throw"
    /\ (captionLog # <<>> /\ captionLog[1].kind = "ok") =>
          /\ Len(captionLog) = 1
          /\ ~Made("captions_default")
          /\ subtitles.kind = "segs"
          /\ SameSegments(captionLog[1].cues, subtitles.segs)
          /\ \A i \in 1..Len(captionLog[1].cues) : captionLog[1].cues[i].lang = "ko"

C3_Witness ==
    /\ pc = "done"
    /\ RouteVariant
    /\ Len(captionLog) = 1
    /\ captionLog[1].kind = "ok"
    /\ Len(captionLog[1].cues) = 2
    /\ Count(calls, "captions_ko") = 1

(* C4: in route.ts, when both caption attempts fail tryGetSubtitles returns  *)
(* null and raises nothing: the handler goes on to its fallback decision and *)
(* never answers with the server-error response of its outer catch.          *)
C4_BothFailGivesNull ==
    (RouteVariant /\ Len(captionLog) = 2
       /\ captionLog[1].kind = "throw" /\ captionLog[2].kind = "throw") =>
        /\ subtitles = Null
        /\ pc \in {"decide", "resolve", "download", "engine", "respond", "done"}
        /\ response.kind = "error" => response.error # MsgServerError

C4_Witness ==
    /\ pc = "decide"
    /\ RouteVariant
    /\ Len(captionLog) = 2
    /\ captionLog[1].kind = "throw"
    /\ captionLog[2].kind = "throw"
    /\ subtitles = Null

MetadataFailed ==
    \/ metaLog.kind \in {"throw", "notok", "badjson"}
    \/ metaLog.kind = "ok" /\ metaLog.data.type = "null"

(* C6: when the metadata fetch fails (the fetch rejects, a non-ok response,  *)
(* a body that is no JSON or holds no object) the request ends with status   *)
(* 404 and the metadata fetch is the only external call of the request.      *)
C6_MetadataFailureIsTerminal ==
    MetadataFailed =>
        /\ pc = "done"
        /\ response.kind = "error"
        /\ response.status = 404
        /\ response.error = MsgVideoNotFound
        /\ calls = <<"metadata">>

C6_Witness ==
    /\ metaLog.kind = "badjson"
    /\ pc = "done"
    /\ response.kind = "error"
    /\ response.status = 404

\* the response is the success shape, or { error } with a status code
ResponseWellFormed ==
    \/ /\ response.kind = "success"
       /\ response.status = 200
       /\ {"videoInfo", "transcript", "fullText"} \subseteq DOMAIN response
    \/ /\ response.kind = "error"
       /\ DOMAIN response = {"kind", "error", "status"}
       /\ response.error # ""
       /\ response.status \in {400, 404, 500}

(* C7: every request reaches exactly one terminal state with a well-formed   *)
(* response: no failure leaves POST unhandled, a handler that has not        *)
(* returned has returned no response and has a step to take, and a handler   *)
(* that has returned takes no further step.                                  *)
C7_AlwaysOneResponse ==
    /\ pc # "unhandled"
    /\ pc = "done" => ResponseWellFormed /\ ~ENABLED Next
    /\ pc # "done" => response = NoResponse /\ ENABLED Next

C7_Witness ==
    /\ pc = "done"
    /\ Made("engine")
    /\ response.kind = "error"
    /\ response.status = 500
    /\ response.error = MsgWhisperDefault

(* C8 as stated: a resolver answer of 'processing' is followed by another    *)
(* poll, up to 5 calls: a request whose resolver last answered 'processing'  *)
(* has called the resolver exactly 5 times when it ends.                     *)
C8_PollsUpToFiveTimes ==
    (pc = "done" /\ resolverStatus = "processing") => Count(calls, "resolver") = 5

(* C9 as stated: a downloaded payload of more than 25 MB is never handed to  *)
(* the speech engine, and the request ends with the 'too long' error.        *)
C9_AudioTooLargeRejected ==
    (audioSize > 25 * 1024 * 1024) =>
        /\ ~Made("engine")
        /\ pc = "done" => response.kind = "error" /\ response.error = MsgTooLong

(* C10: when the engine returns no segments but a non-empty whole text, the  *)
(* transcriber's result is the one segment {text: wholeText, offset: 0,      *)
(* duration: 0}.                                                             *)
C10_WholeTextSegment ==
    (usedWhisper
       /\ (~transcription.segments.present \/ transcription.segments.items = <<>>)
       /\ transcription.text # <<>>) =>
        transcript = << [text |-> transcription.text, offset |-> 0, duration |-> 0] >>

C10_Witness ==
    /\ pc = "done"
    /\ usedWhisper
    /\ ~transcription.segments.present
    /\ transcription.text = <<" ", "b", " ">>
    /\ response.kind = "success"
    /\ response.transcript = << [text |-> <<" ", "b", " ">>, offset |-> 0, duration |-> 0] >>

-----------------------------------------------------------------------------
\* the first n texts of segs, each but the first preceded by one space
RECURSIVE SpaceJoined(_, _)
SpaceJoined(segs, n) ==
    IF n = 0 THEN <<>>
    ELSE IF n = 1 THEN segs[1].text
    ELSE SpaceJoined(segs, n - 1) \o <<" ">> \o segs[n].text

(* C11: in every success response, of any of the three handlers, fullText    *)
(* is the texts of the returned transcript in order, joined by exactly one   *)
(* space, and empty when the transcript is empty.                            *)
C11_FullTextJoinsSegments ==
    (pc = "done" /\ response.kind = "success") =>
        /\ response.fullText = SpaceJoined(response.transcript, Len(response.transcript))
        /\ response.transcript = <<>> => response.fullText = <<>>

C11_Witness ==
    /\ pc = "done"
    /\ response.kind = "success"
    /\ usedWhisper
    /\ Len(response.transcript) = 2
    /\ response.transcript[1].text = <<"a">>
    /\ response.transcript[2].text = <<"b">>
    /\ response.fullText = <<"a", " ", "b">>

-----------------------------------------------------------------------------
\* the offsets of a list of segments
OffsetsOf(segs) == [i \in 1..Len(segs) |-> segs[i].offset]

NonDecreasing(ns) == \A i \in 1..(Len(ns) - 1) : ns[i] <= ns[i + 1]

(* C12: in every success response the offsets of the transcript are         *)
(* non-decreasing, whatever the caption source or the engine supplied.       *)
C12_OffsetsNonDecreasing ==
    (pc = "done" /\ response.kind = "success") =>
        NonDecreasing(OffsetsOf(response.transcript))

-----------------------------------------------------------------------------
\* the status of a failure by its cause, with the given status for a request
\* left without captions and without a usable fallback in route.ts
StatusByCause(noFallback) ==
    IF ~BodyParsed THEN 500
    ELSE IF ~WellFormedId(RequestedId) THEN 400
    ELSE IF MetadataFailed THEN 404
    ELSE IF variant = "captions" THEN 404
    ELSE IF FallbackUnconfigured THEN noFallback
    ELSE 500

(* C13: a failure response has status 400 for invalid input, 404 when the    *)
(* video is not found and when there are no captions and no usable fallback, *)
(* 500 otherwise.                                                            *)
C13_NoFallbackIsNotFound ==
    (pc = "done" /\ response.kind = "error") =>
        response.status = StatusByCause(404)

(* C13 amended: a failure response has status 400 for invalid input, 404     *)
(* when the video is not found, 400 when there are no captions and the       *)
(* fallback of route.ts is not configured, 404 when the captions-only        *)
(* handler finds no captions, 500 otherwise.                                 *)
C13_StatusMapping ==
    (pc = "done" /\ response.kind = "error") =>
        /\ response.status = StatusByCause(400)
        /\ (RouteVariant /\ CaptionsMissing /\ FallbackUnconfigured) => response.status = 400

C13_Witness ==
    /\ pc = "done"
    /\ response.kind = "error"
    /\ variant = "cobalt"
    /\ CaptionsMissing
    /\ FallbackUnconfigured
    /\ response.status = 400

-----------------------------------------------------------------------------
\* the handler took the speech-recognition fallback with its credentials set
FallbackEntered ==
    /\ RouteVariant
    /\ BodyParsed
    /\ WellFormedId(RequestedId)
    /\ metaLog # Null
    /\ ~MetadataFailed
    /\ CaptionsMissing
    /\ ~FallbackUnconfigured

\* the resolver failed: the call rejected, a non-OK response, an unreadable or
\* null answer, an answer without a usable audio URL
ResolverFailed ==
    \/ resolverStatus \in {"throw", "notok", "badjson", "null", "processing", "error"}
    \/ Made("resolver") /\ ~Made("download")

\* the download failed: the call rejected, a non-OK response, an unreadable body
DownloadFailed == downloadLog \in {"throw", "notok", "badbody"}

\* the rapid variant refuses a payload above 25 MB after the download
DownloadRefused == variant = "rapid" /\ audioSize > maxSize

EngineFailed == engineLog \in {"throw_error", "throw_other"}

\* the message of the step that failed, the source lines of the rapid and of
\* the cobalt variant
FailureMessage ==
    IF resolverStatus = "notok"
       THEN IF variant = "rapid" THEN MsgResolverNotOk ELSE MsgCobaltNotOk
    ELSE IF resolverStatus \in {"throw", "badjson", "null"} THEN MsgFetchFailed
    ELSE IF resolverStatus \in {"processing", "error"}
       THEN IF variant = "rapid" THEN MsgAudioNotFound ELSE MsgCobaltNoUrl
    ELSE IF ~Made("download")
       THEN IF variant = "rapid" THEN MsgAudioNotFound ELSE MsgFetchFailed
    ELSE IF downloadLog = "notok" THEN MsgDownloadFailed
    ELSE IF downloadLog \in {"throw", "badbody"} THEN MsgFetchFailed
    ELSE IF DownloadRefused THEN MsgTooLong
    ELSE IF engineLog = "throw_error" THEN MsgEngineError
    ELSE MsgWhisperDefault

-----------------------------------------------------------------------------
\* the order of the external calls of one request
CallRank(c) ==
    CASE c = "metadata" -> 1
      [] c = "captions_ko" -> 2
      [] c = "captions_default" -> 3
      [] c = "resolver" -> 4
      [] c = "download" -> 5
      [] c = "engine" -> 6
      [] c = "history" -> 7

\* the stage the handler is at: the rank of the call it makes next, one more
\* than the last rank once it only has to respond
StageRank ==
    CASE pc \in {"start", "validate"} -> 0
      [] pc = "metadata" -> 1
      [] pc = "captions_ko" -> 2
      [] pc = "captions_default" -> 3
      [] pc \in {"decide", "resolve"} -> 4
      [] pc = "download" -> 5
      [] pc = "engine" -> 6
      [] pc \in {"respond", "history"} -> 7
      [] pc \in {"respond_captions", "done"} -> 8

(* C15: within one request the metadata fetch, each caption attempt, the     *)
(* resolver call, the audio download and the engine call are each made at    *)
(* most once, in this order, and the handler is past the stage of every call *)
(* it has made: no stage is entered again after it failed or succeeded.      *)
C15_NoRetries ==
    /\ \A c \in {"metadata", "captions_ko", "captions_default", "resolver",
                 "download", "engine"} : Count(calls, c) <= 1
    /\ \A i \in 1..(Len(calls) - 1) : CallRank(calls[i]) < CallRank(calls[i + 1])
    /\ \A i \in 1..Len(calls) : CallRank(calls[i]) < StageRank

C15_Witness ==
    /\ pc = "done"
    /\ response.kind = "error"
    /\ engineLog = "throw_error"
    /\ calls = <<"metadata", "captions_ko", "captions_default", "resolver",
                 "download", "engine">>

-----------------------------------------------------------------------------
(* C16: every segment of a success response has a non-empty text, a          *)
(* non-negative offset and a non-negative duration, whatever the engine or   *)
(* the caption source supplied.                                              *)
C16_SegmentsWellFormed ==
    (pc = "done" /\ response.kind = "success") =>
        \A i \in 1..Len(response.transcript) :
            /\ response.transcript[i].text # <<>>
            /\ response.transcript[i].offset >= 0
            /\ response.transcript[i].duration >= 0

-----------------------------------------------------------------------------
(* C17: when the resolver's answer offers an audio-only item with a URL, the *)
(* URL the Audio Locator returns is the URL of an audio-only item, not that  *)
(* of a video item with audio.                                               *)
C17_AudioOnlyPreferred ==
    (variant = "rapid" /\ pc = "download" /\ audioOffered # {}) =>
        audioUrl \in audioOffered

-----------------------------------------------------------------------------
\* t is s without its leading and trailing white space
IsTrimOf(t, s) ==
    \E i \in 1..(Len(s) + 1) : \E j \in 0..Len(s) :
        /\ t = SubSeq(s, i, j)
        /\ \A k \in 1..Len(s) : (k < i \/ k > j) => s[k] \in WhiteSpace
        /\ t # <<>> => (t[1] \notin WhiteSpace /\ t[Len(t)] \notin WhiteSpace)

(* C18: when the engine returns at least one segment, the transcript of the  *)
(* success response has one segment per engine segment, in the same order,   *)
(* with offset = start, duration = end - start and the text trimmed of its   *)
(* surrounding white space.                                                  *)
C18_SegmentsMappedOneToOne ==
    (/\ pc = "done"
     /\ response.kind = "success"
     /\ engineLog = "ok"
     /\ transcription.segments.present
     /\ transcription.segments.items # <<>>) =>
        LET segs == transcription.segments.items
            out  == response.transcript
        IN  /\ Len(out) = Len(segs)
            /\ \A i \in 1..Len(segs) :
                  /\ out[i].offset = segs[i].start
                  /\ out[i].duration = segs[i].end - segs[i].start
                  /\ IsTrimOf(out[i].text, segs[i].text)

C18_Witness ==
    /\ pc = "done"
    /\ response.kind = "success"
    /\ engineLog = "ok"
    /\ transcription.segments.present
    /\ Len(transcription.segments.items) = 2
    /\ transcription.segments.items[1] = [text |-> <<" ", "b", " ">>, start |-> 0, end |-> 1]
    /\ transcription.segments.items[2] = [text |-> <<"a">>, start |-> 1, end |-> 1]
    /\ response.transcript = << [text |-> <<"b">>, offset |-> 0, duration |-> 1],
                                [text |-> <<"a">>, offset |-> 1, duration |-> 0] >>

-----------------------------------------------------------------------------
\* the captions-only handler fetched a cue list: the request is on its way to
\* the success response, past or at the history write
CaptionsFetched ==
    /\ variant = "captions"
    /\ captionLog # <<>>
    /\ captionLog[Len(captionLog)].kind = "ok"

(* C20: the history write is attempted at most once, only by the             *)
(* captions-only handler with a configured sink and only for a request that  *)
(* ends in a success response; whatever the write does (or with no sink),    *)
(* the response is the success response of the cue list that was fetched.    *)
C20_HistoryBestEffort ==
    /\ Count(calls, "history") <= 1
    /\ (historyLog # "none") <=> Made("history")
    /\ Made("history") =>
          /\ supabase
          /\ CaptionsFetched
          /\ pc \in {"respond_captions", "done"}
    /\ (pc = "done" /\ response.kind = "error") => ~Made("history")
    /\ (pc = "done" /\ CaptionsFetched) =>
          /\ response.kind = "success"
          /\ response.status = 200
          /\ response.videoInfo = videoInfo
          /\ SameSegments(captionLog[Len(captionLog)].cues, response.transcript)
          /\ response.fullText =
                SpaceJoined(response.transcript, Len(response.transcript))

C20_Witness ==
    /\ pc = "done"
    /\ CaptionsFetched
    /\ historyLog = "throw"
    /\ calls = <<"metadata", "captions_ko", "captions_default", "history">>
    /\ response.kind = "success"
    /\ Len(response.transcript) = 2

-----------------------------------------------------------------------------
\* the terminal failure state of a request, by the cause of the failure
TerminalFailure ==
    IF ~BodyParsed THEN "ServerError"
    ELSE IF ~WellFormedId(RequestedId) THEN "Rejected"
    ELSE IF MetadataFailed THEN "NotFound"
    ELSE IF variant = "captions" THEN "NoCaptions"
    ELSE IF FallbackUnconfigured THEN "Unsupported"
    ELSE "TranscriptionFailed"

TerminalFailures ==
    {"ServerError", "Rejected", "NotFound", "NoCaptions", "Unsupported", "TranscriptionFailed"}

\* the user-facing messages of each terminal failure state
MessagesOf(t) ==
    CASE t = "ServerError" -> {MsgServerError}
      [] t = "Rejected" -> {MsgIdRequired, MsgIdFormat}
      [] t = "NotFound" -> {MsgVideoNotFound}
      [] t = "NoCaptions" -> {MsgNoCaptions}
      [] t = "Unsupported" -> {MsgNoCaptionsUseUpload, MsgNoCaptionsNeedKey}
      [] t = "TranscriptionFailed" ->
            {MsgNoOpenAIKey, MsgNoRapidKey, MsgResolverNotOk, MsgAudioNotFound,
             MsgCobaltNotOk, MsgCobaltNoUrl, MsgDownloadFailed, MsgTooLong,
             MsgFetchFailed, MsgEngineError, MsgWhisperDefault}

(* C21: the message of a failure response is one of the messages of the      *)
(* terminal failure state the request ended in, and no message belongs to    *)
(* two terminal failure states: the message tells the states apart, whatever *)
(* the cause of the failure.                                                 *)
C21_DistinctFailureMessages ==
    /\ \A t, u \in TerminalFailures : t # u => MessagesOf(t) \cap MessagesOf(u) = {}
    /\ (pc = "done" /\ response.kind = "error") =>
          /\ response.error \in MessagesOf(TerminalFailure)
          /\ \A t \in TerminalFailures \ {TerminalFailure} :
                response.error \notin MessagesOf(t)

C21_Witness ==
    /\ pc = "done"
    /\ response.kind = "error"
    /\ TerminalFailure = "TranscriptionFailed"
    /\ engineLog = "throw_other"
    /\ response.error = MsgWhisperDefault

-----------------------------------------------------------------------------
(* getAudioUrl taken alone: one call on one JSON answer of the resolver *)

\* no POST request is running
PostIdle ==
    /\ variant = "rapid"
    /\ openai = TRUE
    /\ RAPIDAPI_KEY = TRUE
    /\ supabase = FALSE
    /\ body = [kind |-> "null"]
    /\ pc = "idle"
    /\ videoId = Undefined
    /\ videoInfo = Null
    /\ subtitles = Null
    /\ metaLog = Null
    /\ captionLog = <<>>
    /\ resolverStatus = "none"
    /\ audioOffered = {}
    /\ audioUrl = ""
    /\ audioSize = -1
    /\ downloadLog = "none"
    /\ engineLog = "none"
    /\ historyLog = "none"
    /\ transcription = Null
    /\ transcript = <<>>
    /\ usedWhisper = FALSE
    /\ response = NoResponse
    /\ calls = <<>>

\* what getAudioUrl gives its caller
Returned(url) == [kind |-> "return", url |-> url]
Threw(msg) == [kind |-> "throw", message |-> msg]

LocatorInit ==
    /\ PostIdle
    /\ PageIdle
    /\ HistoryIdle
    /\ locatorData \in { d \in RapidData : d.type = "object" }
    /\ locatorUrl = Null

\* const data = await response.json() ... return audioUrl
LocateAudio ==
    /\ locatorData # Null
    /\ locatorUrl = Null
    /\ locatorUrl' = IF SelectAudioUrl(locatorData) = ""
                        THEN Threw(MsgAudioNotFound)
                        ELSE Returned(SelectAudioUrl(locatorData))
    /\ UNCHANGED <<postVars, pageVars, historyVars, locatorData>>

LocatorNext == LocateAudio

LocatorSpec == LocatorInit /\ [][LocatorNext]_vars

\* the audio items that have both a url and a sizeText, by position
Qualifying(items) == { i \in 1..Len(items) : items[i].url # "" /\ items[i].sizeText # "" }

\* some video item has both a url and hasAudio
VideoQualifies(items) == \E i \in 1..Len(items) : items[i].url # "" /\ items[i].hasAudio

(* C22: getAudioUrl returns the url of the audio item with the smallest      *)
(* parsed size among those with a url and a sizeText (the first one on       *)
(* ties), and throws 'audio not found' exactly when no audio item has both   *)
(* and no video item has a url and hasAudio.                                 *)
C22_SmallestQualifyingAudio ==
    (locatorUrl # Null) =>
        LET audios == ItemsOf(locatorData.audios)
            videos == ItemsOf(locatorData.videos)
            Q == Qualifying(audios)
        IN  /\ Q # {} =>
                 \E i \in Q :
                    /\ locatorUrl = Returned(audios[i].url)
                    /\ \A j \in Q :
                          /\ SizeOf(audios[j].sizeText) >= SizeOf(audios[i].sizeText)
                          /\ j < i => SizeOf(audios[j].sizeText) > SizeOf(audios[i].sizeText)
            /\ (locatorUrl = Threw(MsgAudioNotFound)) <=> (Q = {} /\ ~VideoQualifies(videos))

-----------------------------------------------------------------------------
\* the source of the transcript gave nothing: the engine answered with no
\* segment and an empty text, or the captions-only handler fetched an empty
\* cue list
EmptySource ==
    IF engineLog = "ok"
       THEN ItemsOf(transcription.segments) = <<>> /\ transcription.text = <<>>
       ELSE variant = "captions" /\ captionLog[Len(captionLog)].cues = <<>>

(* C23: every success response carries at least one segment.                 *)
C23_SuccessNeverEmpty ==
    (pc = "done" /\ response.kind = "success") => response.transcript # <<>>

(* C23 amended: a success response carries no segment exactly when the       *)
(* engine answered with no segment and an empty text, or when the            *)
(* captions-only handler fetched an empty cue list; a success response of    *)
(* route.ts built from captions always carries at least one segment.         *)
C23_EmptyOnlyFromEmptySource ==
    (pc = "done" /\ response.kind = "success") =>
        /\ (response.transcript = <<>>) <=> EmptySource
        /\ (RouteVariant /\ engineLog # "ok") => response.transcript # <<>>

C23_Witness ==
    /\ pc = "done"
    /\ response.kind = "success"
    /\ RouteVariant
    /\ engineLog = "ok"
    /\ transcription.segments = Absent
    /\ transcription.text = <<>>
    /\ response.transcript = <<>>

-----------------------------------------------------------------------------
(* The page component: submissions, uploads and the answers to its requests *)

\* most requests the page starts in one run
MaxPageRequests == 3

MsgBadUrl         == "enter a valid YouTube URL"                  \* page.tsx:52
MsgAudioOnly      == "only audio files can be uploaded"           \* page.tsx:83
MsgFileTooBig     == "the file must be 25MB or less"              \* page.tsx:89
MsgUnknownError   == "an unknown error occurred"                  \* page.tsx:67
MsgPageError      == "an error occurred"                          \* page.tsx:72
MsgServerSaid     == "error of the server"
MsgNetwork        == "network error"

\* what the url field holds at a submit: extractVideoId finds an id or not
UrlInputs == {"with_id", "without_id"}

\* files: the type or name is an audio one or not, the size is above 25 MB or not
Files == [audio : BOOLEAN, big : BOOLEAN]

\* how a request of the page ends: response.ok with data, a non-ok response
\* with or without data.error, fetch or response.json() rejecting
Answers == {"ok", "notok", "notok_noerror", "throw", "throw_other"}

PageInit ==
    /\ PostIdle
    /\ LocatorIdle
    /\ HistoryIdle
    /\ loading = FALSE
    /\ result = Null
    /\ error = ""
    /\ mode = "url"
    /\ pending = {}
    /\ started = 0

outsidePage == <<postVars, locatorVars, historyVars>>

\* setLoading(true); setError(''); setResult(null); fetch(...)
StartRequest(kind) ==
    /\ started < MaxPageRequests
    /\ loading' = TRUE
    /\ error' = ""
    /\ result' = Null
    /\ started' = started + 1
    /\ pending' = pending \cup { [id |-> started + 1, kind |-> kind] }

\* onClick={() => setMode(...)}: the tabs are never disabled
SetMode ==
    /\ \E m \in {"url", "upload"} : mode' = m
    /\ UNCHANGED <<loading, result, error, pending, started, outsidePage>>

\* the form is shown in url mode; its button is disabled while loading
handleUrlSubmit ==
    /\ mode = "url"
    /\ ~loading
    /\ \E u \in UrlInputs :
          IF u = "without_id"
             THEN /\ error' = MsgBadUrl
                  /\ UNCHANGED <<loading, result, pending, started>>
             ELSE StartRequest("url")
    /\ UNCHANGED <<mode, outsidePage>>

\* the checks and the request of handleFileUpload
handleFileUpload(file) ==
    IF ~file.audio
       THEN /\ error' = MsgAudioOnly
            /\ UNCHANGED <<loading, result, pending, started>>
    ELSE IF file.big
       THEN /\ error' = MsgFileTooBig
            /\ UNCHANGED <<loading, result, pending, started>>
    ELSE StartRequest("upload")

\* the file input is shown in upload mode and is disabled while loading
handleFileInput ==
    /\ mode = "upload"
    /\ ~loading
    /\ \E file \in Files : handleFileUpload(file)
    /\ UNCHANGED <<mode, outsidePage>>

\* the drop zone is shown in upload mode; onDrop is bound whatever loading is
handleDrop ==
    /\ mode = "upload"
    /\ \E file \in Files : handleFileUpload(file)
    /\ UNCHANGED <<mode, outsidePage>>

\* the rest of a handler after its awaits: setResult or setError, then the
\* finally block's setLoading(false)
Settle ==
    /\ \E r \in pending : \E a \in Answers :
          /\ pending' = pending \ {r}
          /\ IF a = "ok"
                THEN /\ result' = [request |-> r.id, kind |-> r.kind]
                     /\ UNCHANGED error
                ELSE /\ error' = CASE a = "notok" -> MsgServerSaid
                                   [] a = "notok_noerror" -> MsgUnknownError
                                   [] a = "throw" -> MsgNetwork
                                   [] a = "throw_other" -> MsgPageError
                     /\ UNCHANGED result
          /\ loading' = FALSE
    /\ UNCHANGED <<mode, started, outsidePage>>

PageNext == SetMode \/ handleUrlSubmit \/ handleFileInput \/ handleDrop \/ Settle

PageSpec == PageInit /\ [][PageNext]_vars

(* C24: the loading flag is true in every state in which a request started   *)
(* by handleUrlSubmit or handleFileUpload is still in flight.                *)
C24_LoadingWhileInFlight == pending # {} => loading

-----------------------------------------------------------------------------
(* The history GET handler (src/app/api/history/route.ts) *)

\* most rows in the history table
MaxRows == 22

\* .limit(20)
HistoryLimit == 20

\* a table of n rows whose created_at values are all different: in rising
\* order (k = 1), in falling order (k = MaxRows), or in neither
Table(n, k) == [i \in 1..n |-> [id |-> i, created_at |-> (i * k) % (MaxRows + 1)]]

Tables == { Table(n, k) : n \in 0..MaxRows, k \in {1, 5, MaxRows} }

Range(f) == { f[i] : i \in DOMAIN f }

\* .order('created_at', { ascending: false })
OrderByCreatedAt(rows, ascending) ==
    [i \in 1..Len(rows) |->
        CHOOSE r \in Range(rows) :
            Cardinality({ q \in Range(rows) :
                            IF ascending THEN q.created_at < r.created_at
                                         ELSE q.created_at > r.created_at }) = i - 1]

\* .limit(n)
Limit(rows, n) == SubSeq(rows, 1, IF Len(rows) < n THEN Len(rows) ELSE n)

\* the rows the query asks the table for
SelectHistoryOldestFirst(table) == Limit(OrderByCreatedAt(table, TRUE), HistoryLimit)
SelectHistory(table) == Limit(OrderByCreatedAt(table, FALSE), HistoryLimit)

\* how the awaited query ends: { data: rows }, { data: null } without an
\* error, { error }, or a rejection
QueryOutcomes == {"rows", "nodata", "error", "throw"}

\* NextResponse.json({ history: list })
HistoryJson(list) == [kind |-> "success", status |-> 200, history |-> list]

HistoryInit ==
    /\ PostIdle
    /\ LocatorIdle
    /\ PageIdle
    /\ NEXT_PUBLIC_SUPABASE_URL \in BOOLEAN
    /\ SUPABASE_SERVICE_KEY \in BOOLEAN
    /\ crawl_history \in Tables
    /\ historyPc = "start"
    /\ queryLog = "none"
    /\ historyResponse = NoResponse

outsideHistory == <<postVars, locatorVars, pageVars>>

\* if (!process.env.NEXT_PUBLIC_SUPABASE_URL || !process.env.SUPABASE_SERVICE_KEY);
\* createClient with both values set is taken to succeed
CheckEnvironment ==
    /\ historyPc = "start"
    /\ IF ~NEXT_PUBLIC_SUPABASE_URL \/ ~SUPABASE_SERVICE_KEY
          THEN /\ historyResponse' = HistoryJson(<<>>)
               /\ historyPc' = "done"
          ELSE /\ historyPc' = "query"
               /\ UNCHANGED historyResponse
    /\ UNCHANGED <<NEXT_PUBLIC_SUPABASE_URL, SUPABASE_SERVICE_KEY, crawl_history, queryLog,
                   outsideHistory>>

\* the awaited query, if (error) throw error, data || [], and the catch
QueryHistory ==
    /\ historyPc = "query"
    /\ \E o \in QueryOutcomes :
          /\ queryLog' = o
          /\ historyResponse' = IF o = "rows"
                                   THEN HistoryJson(SelectHistory(crawl_history))
                                   ELSE HistoryJson(<<>>)
    /\ historyPc' = "done"
    /\ UNCHANGED <<NEXT_PUBLIC_SUPABASE_URL, SUPABASE_SERVICE_KEY, crawl_history,
                   outsideHistory>>

HistoryNext == CheckEnvironment \/ QueryHistory

HistorySpec == HistoryInit /\ [][HistoryNext]_vars

====
